---- MODULE Spec2Model ----
(***************************************************************************)
(* bevy-progressbar: the ProgressBar component, the ProgressBarMaterial    *)
(* derived from it, and the per-frame update_progress_bar system.          *)
(*                                                                         *)
(* Numbers keep their machine representation:                              *)
(*   - f32 values are records [cls, m, e].  cls is "nan", "inf", "zero" or *)
(*     "fin"; the sign of m is the sign of the value; a finite non-zero    *)
(*     value is m * 2^e with m odd and |m| < 2^24 (a 24-bit significand).  *)
(*     Arithmetic rounds to nearest, ties to even, as IEEE-754 binary32.  *)
(*   - u32 values are records [hi, lo] of two 16-bit limbs, so that sums   *)
(*     beyond 2^32 - 1 can be told from their wrapped value.               *)
(***************************************************************************)
EXTENDS Integers, Sequences, FiniteSets, TLC

----------------------------------------------------------------------------
(* f32 *)

\* 2^n, 0 <= n <= 30
Pow2(n) ==
    <<1, 2, 4, 8, 16, 32, 64, 128, 256, 512, 1024, 2048, 4096, 8192, 16384, 32768,
      65536, 131072, 262144, 524288, 1048576, 2097152, 4194304, 8388608, 16777216,
      33554432, 67108864, 134217728, 268435456, 536870912, 1073741824>>[n + 1]

RECURSIVE BitLen(_)
BitLen(n) == IF n = 0 THEN 0 ELSE 1 + BitLen(n \div 2)

Abs(n) == IF n < 0 THEN -n ELSE n

Sgn(n) == IF n < 0 THEN -1 ELSE 1

NaN == [cls |-> "nan", m |-> 1, e |-> 0]

Inf(sign) == [cls |-> "inf", m |-> sign, e |-> 0]

Zero(sign) == [cls |-> "zero", m |-> sign, e |-> 0]

\* the f32 of value m * 2^e, for an m that already fits the significand
RECURSIVE Canon(_, _)
Canon(m, e) ==
    IF m = 0 THEN Zero(1)
    ELSE IF m % 2 = 0 THEN Canon(m \div 2, e + 1)
    ELSE [cls |-> "fin", m |-> m, e |-> e]

\* the f32 nearest to n * 2^e (ties to even), for a non-negative n < 2^31
RoundMag(n, e) ==
    LET bl == BitLen(n) IN
    IF bl <= 24 THEN Canon(n, e)
    ELSE LET s    == bl - 24
             q    == n \div Pow2(s)
             r    == n % Pow2(s)
             half == Pow2(s - 1)
             up   == IF r > half \/ (r = half /\ q % 2 = 1) THEN 1 ELSE 0
         IN  Canon(q + up, e + s)

Neg(x) == [x EXCEPT !.m = -x.m]

F(m, e) == IF m < 0 THEN Neg(RoundMag(-m, e)) ELSE RoundMag(m, e)

IsNaN(x) == x.cls = "nan"

\* position of the leading bit of a finite non-zero value
Top(x) == x.e + BitLen(Abs(x.m))

\* x < y for finite non-zero positive magnitudes [m, e]
MagLt(x, y) ==
    IF Top(x) # Top(y) THEN Top(x) < Top(y)
    ELSE IF x.e >= y.e THEN Abs(x.m) * Pow2(x.e - y.e) < Abs(y.m)
    ELSE Abs(x.m) < Abs(y.m) * Pow2(y.e - x.e)

\* IEEE comparison x < y: false when either side is NaN, -0 = +0
FLt(x, y) ==
    IF IsNaN(x) \/ IsNaN(y) THEN FALSE
    ELSE IF x.cls = "zero" /\ y.cls = "zero" THEN FALSE
    ELSE IF x.cls = "zero" THEN y.m > 0
    ELSE IF y.cls = "zero" THEN x.m < 0
    ELSE IF Sgn(x.m) # Sgn(y.m) THEN x.m < 0
    ELSE IF x.cls = "inf" /\ y.cls = "inf" THEN FALSE
    ELSE IF x.cls = "inf" THEN x.m < 0
    ELSE IF y.cls = "inf" THEN y.m > 0
    ELSE IF x.m > 0 THEN MagLt(x, y) ELSE MagLt(y, x)

FGt(x, y) == FLt(y, x)

\* IEEE comparison x = y
FEq(x, y) ==
    /\ ~IsNaN(x)
    /\ ~IsNaN(y)
    /\ \/ x = y
       \/ x.cls = "zero" /\ y.cls = "zero"

FGe(x, y) == FGt(x, y) \/ FEq(x, y)

FLe(x, y) == FLt(x, y) \/ FEq(x, y)

\* x + y.  Finite operands are aligned exactly, which needs the aligned
\* significands to fit 31 bits; the operands the model adds all do.
FAdd(x, y) ==
    IF IsNaN(x) \/ IsNaN(y) THEN NaN
    ELSE IF x.cls = "inf" /\ y.cls = "inf" THEN (IF x.m = y.m THEN x ELSE NaN)
    ELSE IF x.cls = "inf" THEN x
    ELSE IF y.cls = "inf" THEN y
    ELSE IF x.cls = "zero" /\ y.cls = "zero" THEN (IF x.m = y.m THEN x ELSE Zero(1))
    ELSE IF x.cls = "zero" THEN y
    ELSE IF y.cls = "zero" THEN x
    ELSE LET e == IF x.e < y.e THEN x.e ELSE y.e
         IN  F(x.m * Pow2(x.e - e) + y.m * Pow2(y.e - e), e)

\* long division: quotient bits are produced until the quotient has 25 bits
\* (24 significand bits and a guard bit); r is the running remainder
RECURSIVE DivBits(_, _, _, _)
DivBits(q, r, d, k) ==
    IF q >= 16777216 THEN [q |-> q, r |-> r, k |-> k]
    ELSE IF 2 * r >= d THEN DivBits(2 * q + 1, 2 * r - d, d, k + 1)
    ELSE DivBits(2 * q, 2 * r, d, k + 1)

\* x / y.  A quotient of the significands that is a whole number is exact
\* and fits the significand; any other is rounded from its long division.
FDiv(x, y) ==
    IF x.cls = "fin" /\ y.cls = "fin"
    THEN LET n   == Abs(x.m)
             d   == Abs(y.m)
             b   == DivBits(n \div d, n % d, d, 0)
             sig == b.q \div 2
             up  == IF b.q % 2 = 1 /\ (b.r # 0 \/ sig % 2 = 1) THEN 1 ELSE 0
             mag == IF n % d = 0 THEN Canon(n \div d, x.e - y.e)
                    ELSE Canon(sig + up, x.e - y.e - b.k + 1)
         IN  IF (x.m < 0) # (y.m < 0) THEN Neg(mag) ELSE mag
    ELSE LET s == Sgn(x.m) * Sgn(y.m) IN
         IF IsNaN(x) \/ IsNaN(y) THEN NaN
         ELSE IF x.cls = "inf" THEN (IF y.cls = "inf" THEN NaN ELSE Inf(s))
         ELSE IF y.cls = "inf" THEN Zero(s)
         ELSE IF x.cls = "zero" THEN (IF y.cls = "zero" THEN NaN ELSE Zero(s))
         ELSE Inf(s)

\* f32::clamp(self, min, max), with min <= max
FClamp(x, min, max) ==
    LET x1 == IF FLt(x, min) THEN min ELSE x
    IN  IF FGt(x1, max) THEN max ELSE x1

----------------------------------------------------------------------------
(* u32 *)

U32(hi, lo) == [hi |-> hi, lo |-> lo]

\* a + b in 33 bits: the wrapped sum and the carry out of bit 31
U32Add(a, b) ==
    LET lo == a.lo + b.lo
        hi == a.hi + b.hi + lo \div 65536
    IN  [sum |-> U32(hi % 65536, lo % 65536), carry |-> hi \div 65536]

\* `u as f32`: the nearest f32 (ties to even) of hi * 2^16 + lo.  The high
\* part may exceed 16 bits, so the same conversion serves a sum kept unwrapped.
AsF32(u) ==
    LET bl == BitLen(u.hi) IN
    IF bl <= 8 THEN Canon(u.hi * 65536 + u.lo, 0)
    ELSE LET s  == bl - 8
             q  == u.hi * Pow2(16 - s) + u.lo \div Pow2(s)
             r  == u.lo % Pow2(s)
             up == IF r > Pow2(s - 1) \/ (r = Pow2(s - 1) /\ q % 2 = 1) THEN 1 ELSE 0
         IN  Canon(q + up, s)

----------------------------------------------------------------------------
(* bevy_color::Color and LinearRgba *)

Srgba(r, g, b, a) == [space |-> "Srgba", red |-> r, green |-> g, blue |-> b, alpha |-> a]

LinearRgba(r, g, b, a) == [red |-> r, green |-> g, blue |-> b, alpha |-> a]

ColorLinear(r, g, b, a) == [space |-> "LinearRgba", red |-> r, green |-> g, blue |-> b, alpha |-> a]

Half == F(1, -1)

One == F(1, 0)

\* Color::NONE, fully transparent
NONE == ColorLinear(Zero(1), Zero(1), Zero(1), Zero(1))

RED == Srgba(One, Zero(1), Zero(1), One)

BLUE == Srgba(Zero(1), Zero(1), One, One)

GRAY == Srgba(Half, Half, Half, One)

\* the sRGB transfer function on the channel values the model uses:
\* 0 -> 0, 1 -> 1, 0.5 -> 0.21404114 (0x3E5B2D1A)
gamma_function(v) ==
    IF v = Half THEN F(7182029, -25) ELSE v

\* Color::to_linear
to_linear(c) ==
    IF c.space = "LinearRgba" THEN LinearRgba(c.red, c.green, c.blue, c.alpha)
    ELSE LinearRgba(gamma_function(c.red), gamma_function(c.green),
                    gamma_function(c.blue), c.alpha)

----------------------------------------------------------------------------
(* ProgressBar *)

new(sections) == [progress |-> Zero(1), sections |-> sections, empty_color |-> NONE]

single(color) == [progress |-> Zero(1), sections |-> <<<<U32(0, 1), color>>>>, empty_color |-> NONE]

ProgressBar_default == [progress |-> Zero(1), sections |-> <<>>, empty_color |-> NONE]

set_progress(bar, amount) == [bar EXCEPT !.progress = FClamp(amount, Zero(1), One)]

get_progress(bar) == bar.progress

\* increase_progress with only the upper limit its doc comment names
increase_progress_min(bar, amount) ==
    LET sum == FAdd(bar.progress, amount)
    IN  [bar EXCEPT !.progress = IF FGt(sum, One) THEN One ELSE sum]

increase_progress(bar, amount) ==
    [bar EXCEPT !.progress = FClamp(FAdd(bar.progress, amount), Zero(1), One)]

reset(bar) == [bar EXCEPT !.progress = Zero(1)]

is_finished(bar) == FGe(bar.progress, One)

clear_sections(bar) == [bar EXCEPT !.sections = <<>>]

add_section(bar, amount, color) == [bar EXCEPT !.sections = Append(@, <<amount, color>>)]

----------------------------------------------------------------------------
(* ProgressBarMaterial *)

\* A Handle<ShaderStorageBuffer> is modelled by the buffer it owns: a strong
\* handle keeps exactly one buffer alive, and the buffer is dropped with it.
\* Handle::default() is a handle that no buffer backs.
Handle_default == [backed |-> FALSE, content |-> <<>>]

\* buffers.add(ShaderStorageBuffer::from(content))
BuffersAdd(content) == [backed |-> TRUE, content |-> content]

ProgressBarMaterial_default ==
    [empty_color |-> LinearRgba(Zero(1), Zero(1), Zero(1), Zero(1)),
     progress |-> Zero(1),
     sections_color |-> Handle_default,
     sections_start_percentage |-> Handle_default,
     sections_count |-> 0]

\* Assets::add and Commands::spawn: the new asset or entity gets an index
\* that nothing live uses
FreshId(assets, reserved) ==
    CHOOSE id \in 1..(Cardinality(DOMAIN assets \cup reserved) + 1) :
        id \notin DOMAIN assets \cup reserved

\* bar.sections.iter().map(|(amount, _)| amount).sum::<u32>(): the wrapped
\* sum, and whether an addition overflowed on the way
RECURSIVE SumAmounts(_, _, _)
SumAmounts(sections, i, acc) ==
    IF i > Len(sections) THEN acc
    ELSE LET a == U32Add(acc.sum, sections[i][1])
         IN  SumAmounts(sections, i + 1,
                        [sum |-> a.sum, overflowed |-> acc.overflowed \/ a.carry > 0])

\* 1. / (total_amount as f32 / *amount as f32)
Percentage(total_amount, amount) == FDiv(One, FDiv(AsF32(total_amount), AsF32(amount)))

\* the for loop with a guard that skips the division for a zero amount
RECURSIVE PushSections_guarded(_, _, _, _, _)
PushSections_guarded(sections, total_amount, i, colors, percentages) ==
    IF i > Len(sections) THEN [colors |-> colors, percentages |-> percentages]
    ELSE PushSections_guarded(sections, total_amount, i + 1,
                              Append(colors, to_linear(sections[i][2])),
                              IF sections[i][1] = U32(0, 0) THEN percentages
                              ELSE Append(percentages,
                                          Percentage(total_amount, sections[i][1])))

\* the for loop of update: one push to each vector per section
RECURSIVE PushSections(_, _, _, _, _)
PushSections(sections, total_amount, i, colors, percentages) ==
    IF i > Len(sections) THEN [colors |-> colors, percentages |-> percentages]
    ELSE PushSections(sections, total_amount, i + 1,
                      Append(colors, to_linear(sections[i][2])),
                      Append(percentages, Percentage(total_amount, sections[i][1])))

\* update that extends the buffers it already has instead of replacing them
update_extending(self, bar, checks) ==
    LET total == SumAmounts(bar.sections, 1, [sum |-> U32(0, 0), overflowed |-> FALSE])
        vecs  == PushSections(bar.sections, total.sum, 1, self.sections_color.content,
                              self.sections_start_percentage.content)
    IN  [self |-> [empty_color |-> to_linear(bar.empty_color),
                   progress |-> bar.progress,
                   sections_color |-> BuffersAdd(vecs.colors),
                   sections_start_percentage |-> BuffersAdd(vecs.percentages),
                   sections_count |-> Len(vecs.colors)],
         panicked |-> FALSE, total_amount |-> total.sum, added |-> 2]

\* update that returns early when the progress has not changed
update_on_progress_change(self, bar, checks) ==
    LET total == SumAmounts(bar.sections, 1, [sum |-> U32(0, 0), overflowed |-> FALSE])
        vecs  == PushSections(bar.sections, total.sum, 1, <<>>, <<>>)
    IN  IF self.sections_color.backed /\ self.progress = bar.progress
        THEN [self |-> self, panicked |-> FALSE, total_amount |-> total.sum, added |-> 0]
        ELSE [self |-> [empty_color |-> to_linear(bar.empty_color),
                        progress |-> bar.progress,
                        sections_color |-> BuffersAdd(vecs.colors),
                        sections_start_percentage |-> BuffersAdd(vecs.percentages),
                        sections_count |-> Len(bar.sections)],
              panicked |-> FALSE, total_amount |-> total.sum, added |-> 2]

\* ProgressBarMaterial::update.  With overflow checks (a debug build) an
\* overflowing sum panics after the first two fields are written; without
\* them (a release build) the sum wraps.  added counts the calls of
\* buffers.add.
update(self, bar, checks) ==
    LET self1  == [self EXCEPT !.empty_color = to_linear(bar.empty_color),
                               !.progress = bar.progress]
        total  == SumAmounts(bar.sections, 1, [sum |-> U32(0, 0), overflowed |-> FALSE])
        vecs   == PushSections(bar.sections, total.sum, 1, <<>>, <<>>)
    IN  IF checks /\ total.overflowed
        THEN [self |-> self1, panicked |-> TRUE, total_amount |-> total.sum, added |-> 0]
        ELSE [self |-> [self1 EXCEPT !.sections_color = BuffersAdd(vecs.colors),
                                     !.sections_start_percentage = BuffersAdd(vecs.percentages),
                                     !.sections_count = Len(bar.sections)],
              panicked |-> FALSE, total_amount |-> total.sum, added |-> 2]

----------------------------------------------------------------------------
(* The world: entities carrying a ProgressBar and a MaterialNode, the      *)
(* material assets and the storage-buffer assets.                          *)

\* With and Without extend and restrict a function (a map of the program)
With(f, k, v) == [x \in DOMAIN f \cup {k} |-> IF x = k THEN v ELSE f[x]]

Without(f, k) == [x \in DOMAIN f \ {k} |-> f[x]]

VARIABLES
    bars,             \* entity -> ProgressBar component
    handles,          \* entity -> handle held by its MaterialNode
    materials,        \* Assets<ProgressBarMaterial>: handle -> material
    fault,            \* TRUE once a panic has ended the process
    last,             \* the operation that produced this state
    visits            \* what the run of update_progress_bar that produced this
                      \* state did for each entity it visited

vars == <<bars, handles, materials, fault, last, visits>>

\* most sections a bar is given
MaxSections == 2

\* most sections of a bar that is synchronised frame by frame
MaxTickSections == 1

\* most entities spawned
MaxBars == 2

Range(f) == {f[k] : k \in DOMAIN f}

Op(op, e, arg) == [op |-> op, e |-> e, arg |-> arg]

\* the record of one visit
Visit(entity, resolved, u) ==
    [resolved |-> resolved, total_amount |-> u.total_amount, added |-> u.added]

Unresolved == [total_amount |-> U32(0, 0), added |-> 0]

\* the loop leaving at the first handle that does not resolve
RECURSIVE VisitPairings_break(_, _, _, _)
VisitPairings_break(order, checks, i, st) ==
    IF i > Len(order) \/ st.panicked THEN st
    ELSE LET entity == order[i]
             handle == handles[entity]
         IN  IF handle \notin DOMAIN st.materials
             THEN [st EXCEPT !.visits = With(@, entity, Visit(entity, FALSE, Unresolved))]
             ELSE LET u == update(st.materials[handle], bars[entity], checks)
                  IN  VisitPairings_break(order, checks, i + 1,
                         [materials |-> [st.materials EXCEPT ![handle] = u.self],
                          panicked |-> u.panicked,
                          visits |-> With(st.visits, entity, Visit(entity, TRUE, u))])

\* the loop with the sections of the bars visited so far carried over to
\* the next update (the two vectors declared outside the loop)
RECURSIVE VisitPairings_hoisted(_, _, _, _)
VisitPairings_hoisted(order, checks, i, st) ==
    IF i > Len(order) \/ st.panicked THEN st
    ELSE LET entity == order[i]
             handle == handles[entity]
             carried == IF i = 1 \/ handles[order[i - 1]] \notin DOMAIN st.materials THEN <<>>
                        ELSE bars[order[i - 1]].sections
         IN  IF handle \notin DOMAIN st.materials
             THEN VisitPairings_hoisted(order, checks, i + 1,
                     [st EXCEPT !.visits = With(@, entity, Visit(entity, FALSE, Unresolved))])
             ELSE LET u == update(st.materials[handle],
                                  [bars[entity] EXCEPT !.sections = carried \o @], checks)
                  IN  VisitPairings_hoisted(order, checks, i + 1,
                         [materials |-> [st.materials EXCEPT ![handle] = u.self],
                          panicked |-> u.panicked,
                          visits |-> With(st.visits, entity, Visit(entity, TRUE, u))])

\* the loop of update_progress_bar over the pairings in the order the query
\* yields them; a panic inside update ends it
RECURSIVE VisitPairings(_, _, _, _)
VisitPairings(order, checks, i, st) ==
    IF i > Len(order) \/ st.panicked THEN st
    ELSE LET entity == order[i]
             handle == handles[entity]
         IN  IF handle \notin DOMAIN st.materials
             THEN VisitPairings(order, checks, i + 1,
                     [st EXCEPT !.visits = With(@, entity, Visit(entity, FALSE, Unresolved))])
             ELSE LET u == update(st.materials[handle], bars[entity], checks)
                  IN  VisitPairings(order, checks, i + 1,
                         [materials |-> [st.materials EXCEPT ![handle] = u.self],
                          panicked |-> u.panicked,
                          visits |-> With(st.visits, entity, Visit(entity, TRUE, u))])

\* the system update_progress_bar, run once
update_progress_bar(order, checks) ==
    VisitPairings(order, checks, 1, [materials |-> materials, panicked |-> FALSE,
                                     visits |-> <<>>])

\* the orders in which a query can yield the entities
RECURSIVE Orders(_)
Orders(S) ==
    IF S = {} THEN {<<>>}
    ELSE UNION {{<<entity>> \o order : order \in Orders(S \ {entity})} : entity \in S}

----------------------------------------------------------------------------
(* Actions *)

Mutate(entity, bar, op) ==
    /\ ~fault
    /\ bars' = [bars EXCEPT ![entity] = bar]
    /\ last' = op
    /\ visits' = <<>>
    /\ UNCHANGED <<handles, materials, fault>>

SetProgress(entity, amount) ==
    Mutate(entity, set_progress(bars[entity], amount), Op("set_progress", entity, amount))

IncreaseProgress(entity, amount) ==
    Mutate(entity, increase_progress(bars[entity], amount), Op("increase_progress", entity, amount))

Reset(entity) ==
    Mutate(entity, reset(bars[entity]), Op("reset", entity, 0))

ClearSections(entity) ==
    Mutate(entity, clear_sections(bars[entity]), Op("clear_sections", entity, 0))

AddSection(entity, section, max) ==
    /\ Len(bars[entity].sections) < max
    /\ Mutate(entity, add_section(bars[entity], section[1], section[2]),
              Op("add_section", entity, section))

\* bar.empty_color = color (the field is public)
SetEmptyColor(entity, color) ==
    Mutate(entity, [bars[entity] EXCEPT !.empty_color = color], Op("empty_color", entity, color))

\* commands.spawn(ProgressBarBundle::new(bar, &mut materials))
Spawn(bar) ==
    /\ ~fault
    /\ Cardinality(DOMAIN bars) < MaxBars
    /\ LET entity == FreshId(bars, {})
           handle == FreshId(materials, Range(handles))
       IN  /\ bars' = With(bars, entity, bar)
           /\ handles' = With(handles, entity, handle)
           /\ materials' = With(materials, handle, ProgressBarMaterial_default)
           /\ last' = Op("spawn", 0, 0)
    /\ visits' = <<>>
    /\ UNCHANGED fault

\* commands.spawn((bar, MaterialNode(handle.clone()))): a bar drawn with a
\* material another entity already uses
SpawnShared(bar, handle) ==
    /\ ~fault
    /\ Cardinality(DOMAIN bars) < MaxBars
    /\ handle \in Range(handles)
    /\ LET entity == FreshId(bars, {})
       IN  /\ bars' = With(bars, entity, bar)
           /\ handles' = With(handles, entity, handle)
           /\ last' = Op("spawn_shared", 0, 0)
    /\ visits' = <<>>
    /\ UNCHANGED <<materials, fault>>

\* materials.remove(&handle): the asset is gone while entities keep the handle
RemoveMaterial(handle) ==
    /\ ~fault
    /\ handle \in DOMAIN materials
    /\ materials' = Without(materials, handle)
    /\ last' = Op("remove_material", 0, 0)
    /\ visits' = <<>>
    /\ UNCHANGED <<bars, handles, fault>>

\* materials.insert(&handle, ProgressBarMaterial::default()): the asset
\* behind a handle becomes available (again).  last.arg is 1 when the run
\* just before skipped a pairing for want of this material.
InsertMaterial(handle) ==
    /\ ~fault
    /\ handle \in Range(handles) \ DOMAIN materials
    /\ materials' = With(materials, handle, ProgressBarMaterial_default)
    /\ last' = Op("insert_material", 0,
                   IF \E entity \in DOMAIN visits :
                          handles[entity] = handle /\ ~visits[entity].resolved
                   THEN 1 ELSE 0)
    /\ visits' = <<>>
    /\ UNCHANGED <<bars, handles, fault>>

\* one frame: the Update schedule runs update_progress_bar, in a build that
\* panics on integer overflow (debug, checks) or in one that wraps (release).
\* last.arg is 1 when the run directly follows another run, and 2 when it
\* follows the insertion of a material that the run before had missed.
Tick(order) ==
    /\ ~fault
    /\ \E r \in {update_progress_bar(order, checks) : checks \in BOOLEAN} :
           /\ materials' = r.materials
           /\ fault' = r.panicked
           /\ visits' = r.visits
    /\ last' = Op("tick", 0, IF last.op = "tick" THEN 1
                              ELSE IF last.op = "insert_material" /\ last.arg = 1 THEN 2
                              ELSE 0)
    /\ UNCHANGED <<bars, handles>>

----------------------------------------------------------------------------
(* Inputs *)

\* amounts passed to set_progress and increase_progress
Amounts == {NaN, Inf(1), Inf(-1), Zero(-1), Zero(1), F(-1, -2), Half, F(2, 0)}

\* sections of the bars whose progress is exercised
BarSections == {<<U32(0, 10), RED>>, <<U32(0, 9), BLUE>>}

\* sections of the bars whose material update is exercised: the weights
\* 0, 1, 7, 9, 10 and 2^32 - 1
UpdateSections ==
    {<<U32(0, 0), RED>>, <<U32(0, 1), BLUE>>, <<U32(0, 7), GRAY>>,
     <<U32(0, 9), BLUE>>, <<U32(0, 10), RED>>, <<U32(65535, 65535), NONE>>}

\* sections of the bars that are spawned and synchronised frame by frame
TickSections == {<<U32(0, 1), RED>>}

SeqsUpTo(S, n) == UNION {[1..k -> S] : k \in 0..n}

InitWorld(b, h, m) ==
    /\ bars = b
    /\ handles = h
    /\ materials = m
    /\ fault = FALSE
    /\ last = Op("init", 0, 0)
    /\ visits = <<>>

----------------------------------------------------------------------------
(* SpecBar: one ProgressBar and its mutators *)

InitBar ==
    \E bar \in {new(<<>>), new(<<<<U32(0, 10), RED>>, <<U32(0, 9), BLUE>>>>),
                single(GRAY), ProgressBar_default} :
        InitWorld(1 :> bar, <<>>, <<>>)

NextBar ==
    \E entity \in DOMAIN bars :
        \/ \E amount \in Amounts : SetProgress(entity, amount)
        \/ \E amount \in Amounts : IncreaseProgress(entity, amount)
        \/ Reset(entity)
        \/ ClearSections(entity)
        \/ \E section \in BarSections : AddSection(entity, section, MaxSections)
        \/ \E color \in {NONE, GRAY} : SetEmptyColor(entity, color)

SpecBar == InitBar /\ [][NextBar]_vars

----------------------------------------------------------------------------
(* SpecUpdate: one bundle, its sections edited, its material updated *)

InitUpdate ==
    \E sections \in SeqsUpTo(UpdateSections, 1) :
        InitWorld(1 :> [set_progress(new(sections), Half) EXCEPT !.empty_color = GRAY], 1 :> 1,
                  1 :> ProgressBarMaterial_default)

NextUpdate ==
    \/ \E entity \in DOMAIN bars :
        \/ ClearSections(entity)
        \/ \E section \in UpdateSections : AddSection(entity, section, MaxSections)
    \/ \E order \in Orders(DOMAIN bars) : Tick(order)

SpecUpdate == InitUpdate /\ [][NextUpdate]_vars

----------------------------------------------------------------------------
(* SpecTick: bundles are spawned, edited, lose and regain their material,  *)
(* and are synchronised every frame.  SpecShared also lets two entities    *)
(* hold the same material handle.                                          *)

TickBars == {new(<<>>), set_progress(single(RED), Half)}

InitTick == InitWorld(<<>>, <<>>, <<>>)

NextTick ==
    \/ \E bar \in TickBars : Spawn(bar)
    \/ \E entity \in DOMAIN bars, section \in TickSections :
        AddSection(entity, section, MaxTickSections)
    \/ \E handle \in DOMAIN materials : RemoveMaterial(handle)
    \/ \E handle \in Range(handles) : InsertMaterial(handle)
    \/ \E order \in Orders(DOMAIN bars) : Tick(order)

SpecTick == InitTick /\ [][NextTick]_vars

NextShared ==
    \/ NextTick
    \/ \E bar \in TickBars, handle \in Range(handles) : SpawnShared(bar, handle)

SpecShared == InitTick /\ [][NextShared]_vars

----------------------------------------------------------------------------
(* Properties *)

InUnitRange(x) == FLe(Zero(1), x) /\ FLe(x, One)

\* the sum of the amounts as a number, not as a u32: the high part is not
\* reduced modulo 2^16
RECURSIVE LimbSum(_, _, _)
LimbSum(sections, i, limb) ==
    IF i > Len(sections) THEN 0
    ELSE (IF limb = "hi" THEN sections[i][1].hi ELSE sections[i][1].lo)
         + LimbSum(sections, i + 1, limb)

MathTotal(sections) ==
    [hi |-> LimbSum(sections, 1, "hi") + LimbSum(sections, 1, "lo") \div 65536,
     lo |-> LimbSum(sections, 1, "lo") % 65536]

Resolved(entity) == entity \in DOMAIN visits /\ visits[entity].resolved

MaterialOf(entity) == materials[handles[entity]]

\* C1: the stored progress of every bar is in [0.0, 1.0] in every state.
C1_ProgressInRange ==
    \A entity \in DOMAIN bars : InUnitRange(get_progress(bars[entity]))

\* C6: increase_progress(x) on a bar whose progress p is in [0, 1], with x
\* not NaN, leaves progress = 0 if p + x < 0, 1 if p + x > 1 and p + x
\* otherwise (p + x being the f32 sum), and leaves sections and empty_color
\* as they were.
C6_IncreaseProgressClamps ==
    [][(last'.op = "increase_progress"
        /\ InUnitRange(bars[last'.e].progress) /\ ~IsNaN(last'.arg))
       => LET old == bars[last'.e]
              new_bar == bars'[last'.e]
              sum == FAdd(old.progress, last'.arg)
          IN  /\ FLt(sum, Zero(1)) => new_bar.progress = Zero(1)
              /\ FGt(sum, One) => new_bar.progress = One
              /\ InUnitRange(sum) => new_bar.progress = sum
              /\ new_bar.sections = old.sections
              /\ new_bar.empty_color = old.empty_color]_vars

\* a negative amount has lowered the progress from 0.5 to 0.25
C6_Witness ==
    /\ last.op = "increase_progress"
    /\ last.arg = F(-1, -2)
    /\ bars[last.e].progress = F(1, -2)

AllZero(sections) == \A i \in 1..Len(sections) : sections[i][1] = U32(0, 0)

\* C2: after an update from a bar whose weights sum to zero the material has
\* sections_count 0 and two empty sequences, and no fault occurred.
C2_ZeroTotalGivesEmpty ==
    \A entity \in DOMAIN bars :
        (last.op = "tick" /\ Resolved(entity) /\ AllZero(bars[entity].sections))
        => /\ ~fault
           /\ MaterialOf(entity).sections_count = 0
           /\ MaterialOf(entity).sections_color.content = <<>>
           /\ MaterialOf(entity).sections_start_percentage.content = <<>>

\* C3: in every material the color buffer, the percentage buffer and
\* sections_count agree on the number of sections, and the two buffers are
\* either both the default handle or both written.
C3_LengthsAgree ==
    \A handle \in DOMAIN materials :
        LET m == materials[handle]
        IN  /\ Len(m.sections_color.content) = m.sections_count
            /\ Len(m.sections_start_percentage.content) = m.sections_count
            /\ m.sections_color.backed = m.sections_start_percentage.backed

\* an update has written two sections, one of them of weight zero
C3_Witness ==
    /\ last.op = "tick"
    /\ Resolved(1)
    /\ ~fault
    /\ MaterialOf(1).sections_count = 2
    /\ \E i \in 1..2 : bars[1].sections[i][1] = U32(0, 0)

\* C4: after an update from a bar of total weight > 0, the i-th percentage is
\* weight_i / total_weight and the i-th color is the linear conversion of
\* the i-th section's color, for every i.
C4_PercentagesAreProportions ==
    \A entity \in DOMAIN bars :
        (last.op = "tick" /\ ~fault /\ Resolved(entity)
         /\ MathTotal(bars[entity].sections) # U32(0, 0))
        => LET sections == bars[entity].sections
               m == MaterialOf(entity)
           IN  /\ Len(m.sections_start_percentage.content) = Len(sections)
               /\ Len(m.sections_color.content) = Len(sections)
               /\ \A i \in 1..Len(sections) :
                    /\ m.sections_start_percentage.content[i]
                         = FDiv(AsF32(sections[i][1]), AsF32(MathTotal(sections)))
                    /\ m.sections_color.content[i] = to_linear(sections[i][2])

\* C5: a run of the synchronizer that directly follows another run, the bar
\* not touched in between, leaves every material as the first run left it.
C5_SecondRunChangesNothing ==
    [][(last.op = "tick" /\ last'.op = "tick" /\ ~fault')
       => \A handle \in DOMAIN materials : materials'[handle] = materials[handle]]_vars

\* two runs in a row over a bar with two sections
C5_Witness ==
    /\ last.op = "tick"
    /\ last.arg = 1
    /\ ~fault
    /\ Resolved(1)
    /\ MaterialOf(1).sections_count = 2
    /\ MaterialOf(1).progress = Half

\* C9: an update completes without a fault and the total it divides by is the
\* mathematical sum of the weights.
C9_TotalIsMathematicalSum ==
    last.op = "tick"
    => /\ ~fault
       /\ \A entity \in DOMAIN bars :
            Resolved(entity)
            => visits[entity].total_amount = MathTotal(bars[entity].sections)

\* what a material holds once it is derived from a bar
Derived(bar) ==
    LET n == Len(bar.sections)
        total == SumAmounts(bar.sections, 1, [sum |-> U32(0, 0), overflowed |-> FALSE]).sum
    IN  [empty_color |-> to_linear(bar.empty_color),
         progress |-> bar.progress,
         sections_color |-> BuffersAdd([i \in 1..n |-> to_linear(bar.sections[i][2])]),
         sections_start_percentage |->
             BuffersAdd([i \in 1..n |-> Percentage(total, bar.sections[i][1])]),
         sections_count |-> n]

HasUnresolved == \E entity \in DOMAIN bars : handles[entity] \notin DOMAIN materials

\* C7: a run in which some handle does not resolve creates and removes no
\* material, allocates no buffer for the unresolved pairing, raises no error,
\* and updates every pairing whose handle resolves.
C7_UnresolvedIsSkipped ==
    [][(last'.op = "tick" /\ HasUnresolved)
       => /\ DOMAIN materials' = DOMAIN materials
          /\ ~fault'
          /\ \A entity \in DOMAIN bars :
               /\ entity \in DOMAIN visits'
               /\ IF handles[entity] \in DOMAIN materials
                  THEN /\ visits'[entity].resolved
                       /\ visits'[entity].added = 2
                       /\ materials'[handles[entity]].sections_color.backed
                       /\ materials'[handles[entity]].sections_count
                            = Len(bars[entity].sections)
                       /\ materials'[handles[entity]].progress = bars[entity].progress
                  ELSE /\ ~visits'[entity].resolved
                       /\ visits'[entity].added = 0]_vars

\* one pairing was skipped and another, with one section, updated in the
\* same run
C7_Witness ==
    /\ last.op = "tick"
    /\ \E skip, other \in DOMAIN bars :
        /\ skip \in DOMAIN visits
        /\ ~visits[skip].resolved
        /\ handles[skip] \notin DOMAIN materials
        /\ Resolved(other)
        /\ MaterialOf(other).sections_count = 1

NoSharedHandle ==
    \A e1, e2 \in DOMAIN bars : handles[e1] = handles[e2] => e1 = e2

\* C10 as stated: whatever the assignment of handles to bars, every order of
\* visiting the pairings leaves the materials as the run left them.
C10_AnyOrderSameMaterials ==
    [][last'.op = "tick"
       => \A order \in Orders(DOMAIN bars) :
            update_progress_bar(order, FALSE).materials = materials']_vars

\* C10 amended: when no two pairings hold the same handle, every order of
\* visiting the pairings leaves the materials as the run left them.
C10_AnyOrderSameMaterialsUnshared ==
    [][(last'.op = "tick" /\ NoSharedHandle)
       => \A order \in Orders(DOMAIN bars) :
            update_progress_bar(order, FALSE).materials = materials']_vars

\* a run updated two pairings with their own materials from different bars
C10_Witness ==
    /\ last.op = "tick"
    /\ NoSharedHandle
    /\ \E e1, e2 \in DOMAIN bars :
        /\ Resolved(e1)
        /\ Resolved(e2)
        /\ MaterialOf(e1).sections_count # MaterialOf(e2).sections_count

====
